---- MODULE Spec2Model ----
(***************************************************************************)
(* Word Count Tracker (enhanced version with manager features).            *)
(* The relational tables, the per-browser sessions and one action per      *)
(* Express route.  A route action runs its request to completion; the      *)
(* Fails actions cut a request short at one rejected statement, and        *)
(* LogWordsSelect / LogWordsInsert run POST /log-words/:id await by await. *)
(* The database clock advances whenever a ProgressLog row is stamped with  *)
(* the current time.                                                       *)
(***************************************************************************)
EXTENDS Integers, Sequences, FiniteSets, TLC

\* ---------------------------------------------------------------- bounds
MaxNow == 3
MaxWords == 2
MaxTextLen == 3

\* ------------------------------------------------------ values and inputs
\* parseInt() of a field that is not a number
NaN == -1000
\* an unset session field (undefined in JS)
NoUser == 0

Sessions == {"s1", "s2"}
UserIds == {1, 2}
Usernames == {"ann", "bob"}
LoginNames == Usernames \cup {"eve"}
Passwords == {"pw1", "pw2", "bad"}
Permissions == {"M", "U"}
\* project_id values handed out by the serial
ProjectIds == {1}
\* a start date is a timestamp at midnight: one long past, one yet to come
Dates == {0, MaxNow + 1}
Targets == {10, 20}
CurrentWordsIn == {NaN} \cup (0..MaxWords)
ManualCounts == {NaN} \cup (-1..MaxWords)
Chars == {"a", " "}
Texts == UNION {[1..n -> Chars] : n \in 0..MaxTextLen}
SearchTerms == {"", "a", "b"}
\* the two fields of the log-words form: text alone, a count alone, both
LogForms == {<<t, NaN>> : t \in Texts} \cup
            {<<t, mc>> : t \in {<<>>, <<"a">>}, mc \in ManualCounts}

VARIABLES
  User,          \* table "User": user_id -> [username, permissions]
  Security,      \* table Security: user_id -> [password_text]
  Project,       \* table Project: project_id -> [user_id, title, start_date]
  Goal,          \* table Goal: set of rows
  ProgressLog,   \* table ProgressLog: rows in insertion order
  nextProjectId, \* serial of Project.project_id
  nextGoalId,    \* serial of Goal.goal_id
  session,       \* req.session of each browser
  now,           \* CURRENT_TIMESTAMP of the database
  last,          \* the request just served and its response
  hist,          \* history: per project, the sum of the owner's logged counts
  inflight       \* the handlers suspended at an await, per request slot

vars == <<User, Security, Project, Goal, ProgressLog, nextProjectId,
          nextGoalId, session, now, last, hist, inflight>>

tables == <<User, Security, Project, Goal, ProgressLog, nextProjectId, nextGoalId>>

\* ------------------------------------------------------------ JS helpers
\* parseInt(v) > 0
GT0(x) == x # NaN /\ x > 0

\* parseInt(v) || d
OrDefault(x, d) == IF x = NaN \/ x = 0 THEN d ELSE x

\* text.trim()
RECURSIVE TrimLeft(_)
TrimLeft(t) == IF t # <<>> /\ Head(t) = " " THEN TrimLeft(Tail(t)) ELSE t

RECURSIVE TrimRight(_)
TrimRight(t) ==
  IF t # <<>> /\ t[Len(t)] = " " THEN TrimRight(SubSeq(t, 1, Len(t) - 1)) ELSE t

Trim(t) == TrimRight(TrimLeft(t))

\* t.split(/\s+/).length for a trimmed, non-empty t: one more than the
\* number of whitespace runs
SplitLength(t) ==
  1 + Cardinality({i \in 1..Len(t) : t[i] = " " /\ (i = 1 \/ t[i - 1] # " ")})

\* the word count computed by POST /log-words/:id
WordCountOf(text, manual_count) ==
  IF GT0(manual_count) THEN manual_count
  ELSE IF Trim(text) # <<>> THEN SplitLength(Trim(text))
  ELSE 0

\* ----------------------------------------------------------- SQL helpers
RowsOf(log, pid) == {log[i] : i \in {j \in DOMAIN log : log[j].project_id = pid}}

\* SELECT total_words FROM ProgressLog WHERE project_id = $1
\* ORDER BY log_date DESC LIMIT 1  (rows with equal log_date: any of them)
LastLogRows(log, pid) ==
  {r \in RowsOf(log, pid) : \A q \in RowsOf(log, pid) : q.log_date <= r.log_date}

\* COALESCE(pl.total_words, 0) AS current_words
CurrentWords(log, pid) ==
  IF RowsOf(log, pid) = {} THEN {0}
  ELSE {r.total_words : r \in LastLogRows(log, pid)}

\* rows the session user may see: WHERE p.user_id = $1
OwnedBy(uid) == {p \in DOMAIN Project : Project[p].user_id = uid}

\* faulty variant: the WHERE clause is missing
DeleteLogsM(log, pid) == <<>>

\* DELETE FROM ProgressLog WHERE project_id = $1
DeleteLogs(log, pid) == SelectSeq(log, LAMBDA r : r.project_id # pid)

\* the requests that may be under way at the same time
Requests == {"r1", "r2"}

\* no handler of the slot is waiting for the database
Idle == [pc |-> "idle", sess |-> "", id |-> 0, wordCount |-> 0, previousTotal |-> 0]

Anonymous == [isLoggedIn |-> FALSE, username |-> "", userId |-> NoUser,
              permissions |-> ""]

\* the submitted form fields a response is about; in a response, failed is
\* the number of the statement the database rejected, 0 if none
Arg(name, pass, n) == [name |-> name, pass |-> pass, n |-> n]
NoArg == Arg("", "", 0)

Response(op, s, id, arg, status, view, msg, db, data, handler) ==
  [op |-> op, sess |-> s, auth |-> session[s].isLoggedIn,
   who |-> session[s].userId, role |-> session[s].permissions,
   id |-> id, arg |-> arg,
   status |-> status, view |-> view, msg |-> msg, db |-> db, data |-> data,
   handler |-> handler, failed |-> 0]

\* ------------------------------------------------------------------ Init
Init ==
  /\ User = (1 :> [username |-> "ann", permissions |-> "M"]) @@
            (2 :> [username |-> "bob", permissions |-> "U"])
  /\ Security = (1 :> [password_text |-> "pw1"]) @@
                (2 :> [password_text |-> "pw2"])
  /\ Project = <<>>
  /\ Goal = {}
  /\ ProgressLog = <<>>
  /\ nextProjectId = 1
  /\ nextGoalId = 1
  /\ session = [s \in Sessions |-> Anonymous]
  /\ now = 1
  /\ last = [op |-> "none", sess |-> "s1", auth |-> FALSE, who |-> NoUser,
             role |-> "", id |-> 0,
             arg |-> NoArg, status |-> 0, view |-> "", msg |-> "", db |-> 0, data |-> {},
             handler |-> FALSE, failed |-> 0]
  /\ hist = [p \in ProjectIds |-> [onlyLogged |-> TRUE, sum |-> 0]]
  /\ inflight = [r \in Requests |-> Idle]

\* ------------------------------------------------------------ middleware
openPaths == {"/", "/login", "/logout"}

\* faulty variant: a gate that lets every request through
AuthenticatedM(s, path) == TRUE

\* the authentication middleware lets the request through
Authenticated(s, path) == path \in openPaths \/ session[s].isLoggedIn

\* what the authentication middleware answers otherwise
LoginRequired(op, s, id) ==
  /\ last' = Response(op, s, id, NoArg, 200, "login",
                      "Please log in to access this page", 0, {}, FALSE)
  /\ UNCHANGED <<tables, session, now, hist, inflight>>

\* faulty variant: any logged-in session passes
requireManagerM(s) == session[s].isLoggedIn

\* the manager-only middleware lets the request through
requireManager(s) == session[s].permissions = "M"

Forbidden(op, s, id) ==
  /\ last' = Response(op, s, id, NoArg, 403, "",
                      "Access denied. Manager permissions required.", 0, {}, FALSE)
  /\ UNCHANGED <<tables, session, now, hist, inflight>>

\* ---------------------------------------------------------------- routes
GetRoot(s) ==
  /\ last' = Response("GET /", s, 0, NoArg, 200, "login", "", 0, {}, TRUE)
  /\ UNCHANGED <<tables, session, now, hist, inflight>>

\* faulty variant: the password is not compared
validPasswordM(password, password_text) == TRUE

\* const validPassword = password === user.password_text
validPassword(password, password_text) == password = password_text

\* SELECT ... FROM "User" u INNER JOIN Security s ... WHERE u.username = $1
LoginRows(username) ==
  {u \in DOMAIN User \cap DOMAIN Security : User[u].username = username}

PostLogin(s, username, password) ==
  IF LoginRows(username) = {}
  THEN /\ last' = Response("POST /login", s, 0, Arg(username, password, 0), 200, "login",
                           "Invalid username or password", 1, {}, TRUE)
       /\ UNCHANGED <<tables, session, now, hist, inflight>>
  ELSE \E uid \in LoginRows(username) :
         IF ~validPassword(password, Security[uid].password_text)
         THEN /\ last' = Response("POST /login", s, 0, Arg(username, password, 0), 200, "login",
                                  "Invalid username or password", 1, {}, TRUE)
              /\ UNCHANGED <<tables, session, now, hist, inflight>>
         ELSE \* UPDATE Security SET last_login = CURRENT_TIMESTAMP: the
              \* column is read by no route and is not kept in the model
              /\ session' = [session EXCEPT ![s] =
                               [isLoggedIn |-> TRUE,
                                username |-> User[uid].username,
                                userId |-> uid,
                                permissions |-> User[uid].permissions]]
              /\ last' = Response("POST /login", s, 0, Arg(username, password, 0), 302, "/dashboard", "",
                                  2, {}, TRUE)
              /\ UNCHANGED <<tables, now, hist, inflight>>

\* faulty variant: the session is kept
GetLogoutM(s) ==
  /\ last' = Response("GET /logout", s, 0, NoArg, 302, "/", "", 0, {}, TRUE)
  /\ UNCHANGED <<tables, session, now, hist, inflight>>

\* req.session.destroy(): the next request of the browser starts a new session
GetLogout(s) ==
  /\ session' = [session EXCEPT ![s] = Anonymous]
  /\ last' = Response("GET /logout", s, 0, NoArg, 302, "/", "", 0, {}, TRUE)
  /\ UNCHANGED <<tables, now, hist, inflight>>

GetDashboard(s) ==
  IF ~Authenticated(s, "/dashboard") THEN LoginRequired("GET /dashboard", s, 0)
  ELSE /\ last' = Response("GET /dashboard", s, 0, NoArg, 200, "dashboard", "", 1,
                           OwnedBy(session[s].userId), TRUE)
       /\ UNCHANGED <<tables, session, now, hist, inflight>>

\* LOWER(p.title) LIKE LOWER('%q%') on one-letter titles
Like(title, q) == q = "" \/ title = q

GetSearch(s, q) ==
  IF ~Authenticated(s, "/search") THEN LoginRequired("GET /search", s, 0)
  ELSE /\ last' = Response("GET /search", s, 0, NoArg, 200, "dashboard", "", 1,
                           {p \in OwnedBy(session[s].userId) :
                              Like(Project[p].title, q)}, TRUE)
       /\ UNCHANGED <<tables, session, now, hist, inflight>>

GetStats(s) ==
  IF ~Authenticated(s, "/stats") THEN LoginRequired("GET /stats", s, 0)
  ELSE /\ last' = Response("GET /stats", s, 0, NoArg, 200, "stats", "", 1,
                           OwnedBy(session[s].userId), TRUE)
       /\ UNCHANGED <<tables, session, now, hist, inflight>>

GetAdd(s) ==
  IF ~Authenticated(s, "/add") THEN LoginRequired("GET /add", s, 0)
  ELSE /\ last' = Response("GET /add", s, 0, NoArg, 200, "add-project", "", 0, {}, TRUE)
       /\ UNCHANGED <<tables, session, now, hist, inflight>>

\* the Goal row inserted by POST /add
NewGoal(gid, pid, targetWords, dailyGoal) ==
  [goal_id |-> gid, project_id |-> pid, goal_type |-> "total_words",
   target_value |-> targetWords, daily_target |-> OrDefault(dailyGoal, 1000),
   is_active |-> TRUE]

\* the optional initial ProgressLog row of POST /add
InitialLog(log, pid, currentWords, startDate) ==
  IF GT0(currentWords)
  THEN Append(log, [project_id |-> pid, word_count |-> currentWords,
                    total_words |-> currentWords, log_date |-> startDate])
  ELSE log

PostAdd(s, title, targetWords, currentWords, dailyGoal, startDate) ==
  IF ~Authenticated(s, "/add") THEN LoginRequired("POST /add", s, 0)
  ELSE
    LET uid == session[s].userId
        pid == nextProjectId
    IN
    IF uid \notin DOMAIN User
    THEN \* Project.user_id references "User": the first INSERT throws
         /\ last' = Response("POST /add", s, 0, Arg("", "", currentWords), 302, "/dashboard", "", 1, {}, TRUE)
         /\ UNCHANGED <<tables, session, now, hist, inflight>>
    ELSE
      /\ nextProjectId \in ProjectIds
      /\ Project' = (pid :> [user_id |-> uid, title |-> title,
                             start_date |-> startDate]) @@ Project
      /\ nextProjectId' = nextProjectId + 1
      /\ IF targetWords = NaN
         THEN \* the Goal INSERT throws; the Project row stays
              /\ UNCHANGED <<Goal, nextGoalId, ProgressLog>>
              /\ hist' = [hist EXCEPT ![pid] = [onlyLogged |-> TRUE, sum |-> 0]]
              /\ last' = Response("POST /add", s, pid, Arg("", "", currentWords), 302, "/dashboard", "",
                                  2, {}, TRUE)
         ELSE /\ Goal' = Goal \cup
                   {NewGoal(nextGoalId, pid, targetWords, dailyGoal)}
              /\ nextGoalId' = nextGoalId + 1
              /\ ProgressLog' = InitialLog(ProgressLog, pid, currentWords, startDate)
              /\ hist' = [hist EXCEPT ![pid] =
                            [onlyLogged |-> ~GT0(currentWords), sum |-> 0]]
              /\ last' = Response("POST /add", s, pid, Arg("", "", currentWords), 302, "/dashboard", "",
                                  IF GT0(currentWords) THEN 3 ELSE 2, {}, TRUE)
      /\ UNCHANGED <<User, Security, session, now, inflight>>

\* SELECT ... FROM Project p ... WHERE p.project_id = $1 AND p.user_id = $2
OwnRows(id, uid) == {p \in DOMAIN Project : p = id /\ Project[p].user_id = uid}

GetEdit(s, id) ==
  IF ~Authenticated(s, "/edit/:id") THEN LoginRequired("GET /edit/:id", s, id)
  ELSE /\ last' = IF OwnRows(id, session[s].userId) = {}
                  THEN Response("GET /edit/:id", s, id, NoArg, 302, "/dashboard",
                                "", 1, {}, TRUE)
                  ELSE Response("GET /edit/:id", s, id, NoArg, 200, "edit-project",
                                "", 1, {id}, TRUE)
       /\ UNCHANGED <<tables, session, now, hist, inflight>>

\* UPDATE Project SET ... WHERE project_id = $5 AND user_id = $6
UpdateProject(proj, id, uid, title, startDate) ==
  [p \in DOMAIN proj |->
     IF p = id /\ proj[p].user_id = uid
     THEN [proj[p] EXCEPT !.title = title, !.start_date = startDate]
     ELSE proj[p]]

\* faulty variant: a new active goal is inserted next to the old one
UpdateGoalM(goal, id, targetWords, dailyGoal) ==
  goal \cup {NewGoal(0, id, targetWords, dailyGoal)}

\* UPDATE Goal SET target_value = $1, daily_target = $2
\* WHERE project_id = $3 AND goal_type = 'total_words' AND is_active = true
UpdateGoal(goal, id, targetWords, dailyGoal) ==
  {IF g.project_id = id /\ g.goal_type = "total_words" /\ g.is_active
   THEN [g EXCEPT !.target_value = targetWords,
                  !.daily_target = OrDefault(dailyGoal, 1000)]
   ELSE g : g \in goal}

\* the log_date of a row inserted without one (column default)
DefaultLogDate == now

\* lastLog.rows of the SELECT ... ORDER BY log_date DESC LIMIT 1: the
\* total_words read, or NoRow
NoRow == -2000
LastLog(log, pid) ==
  IF RowsOf(log, pid) = {} THEN {NoRow}
  ELSE {r.total_words : r \in LastLogRows(log, pid)}

\* the row POST /edit/:id inserts for the restated total, <<>> if none
EditEntry(id, lastTotal, currentTotal) ==
  IF lastTotal = NoRow /\ GT0(currentTotal)
  THEN <<[project_id |-> id, word_count |-> currentTotal,
          total_words |-> currentTotal, log_date |-> DefaultLogDate]>>
  ELSE IF lastTotal # NoRow /\ lastTotal # currentTotal
  THEN <<[project_id |-> id, word_count |-> currentTotal - lastTotal,
          total_words |-> currentTotal, log_date |-> DefaultLogDate]>>
  ELSE <<>>

\* the INSERT INTO ProgressLog is accepted by the database
InsertOk(row) == row.project_id \in DOMAIN Project /\ row.total_words # NaN

PostEdit(s, id, title, targetWords, currentWords, dailyGoal, startDate) ==
  IF ~Authenticated(s, "/edit/:id") THEN LoginRequired("POST /edit/:id", s, id)
  ELSE
    LET arg == Arg("", "", currentWords) IN
    /\ Project' = UpdateProject(Project, id, session[s].userId, title, startDate)
    /\ UNCHANGED <<User, Security, session, nextProjectId, nextGoalId, inflight>>
    /\ IF targetWords = NaN
       THEN \* the Goal UPDATE throws
            /\ last' = Response("POST /edit/:id", s, id, arg, 302, "/dashboard",
                                "", 2, {}, TRUE)
            /\ UNCHANGED <<Goal, ProgressLog, now, hist>>
       ELSE
         /\ Goal' = UpdateGoal(Goal, id, targetWords, dailyGoal)
         /\ \E lastTotal \in LastLog(ProgressLog, id) :
              LET entry == EditEntry(id, lastTotal, currentWords) IN
              IF entry = <<>>
              THEN /\ last' = Response("POST /edit/:id", s, id, arg, 302,
                                       "/dashboard", "", 3, {}, TRUE)
                   /\ UNCHANGED <<ProgressLog, now, hist>>
              ELSE IF ~InsertOk(entry[1])
              THEN /\ last' = Response("POST /edit/:id", s, id, arg, 302,
                                       "/dashboard", "", 4, {}, TRUE)
                   /\ UNCHANGED <<ProgressLog, now, hist>>
              ELSE /\ now < MaxNow
                   /\ ProgressLog' = ProgressLog \o entry
                   /\ now' = now + 1
                   /\ hist' = [hist EXCEPT ![id].onlyLogged = FALSE]
                   /\ last' = Response("POST /edit/:id", s, id, arg, 302,
                                       "/dashboard", "", 4, {}, TRUE)

PostDelete(s, id) ==
  IF ~Authenticated(s, "/delete/:id") THEN LoginRequired("POST /delete/:id", s, id)
  ELSE /\ ProgressLog' = DeleteLogs(ProgressLog, id)
       /\ Goal' = {g \in Goal : g.project_id # id}
       /\ Project' = [p \in DOMAIN Project \ OwnRows(id, session[s].userId)
                        |-> Project[p]]
       /\ hist' = [hist EXCEPT ![id].onlyLogged =
                     @ /\ RowsOf(ProgressLog, id) = {}]
       /\ last' = Response("POST /delete/:id", s, id, NoArg, 302, "/dashboard",
                           "", 3, {}, TRUE)
       /\ UNCHANGED <<User, Security, nextProjectId, nextGoalId, session, now,
                      inflight>>

GetLogWords(s, id) ==
  IF ~Authenticated(s, "/log-words/:id") THEN LoginRequired("GET /log-words/:id", s, id)
  ELSE /\ last' = IF OwnRows(id, session[s].userId) = {}
                  THEN Response("GET /log-words/:id", s, id, NoArg, 302,
                                "/dashboard", "", 1, {}, TRUE)
                  ELSE Response("GET /log-words/:id", s, id, NoArg, 200,
                                "log-words", "", 1, {id}, TRUE)
       /\ UNCHANGED <<tables, session, now, hist, inflight>>

\* faulty variant: a count of zero is not turned away
NothingToLogM(wordCount) == FALSE

\* if (wordCount === 0)
NothingToLog(wordCount) == wordCount = 0

\* faulty variant: the previous total is dropped
NewTotalM(previousTotal, wordCount) == wordCount

\* const newTotal = previousTotal + wordCount
NewTotal(previousTotal, wordCount) == previousTotal + wordCount

PostLogWords(s, id, text, manual_count) ==
  IF ~Authenticated(s, "/log-words/:id") THEN LoginRequired("POST /log-words/:id", s, id)
  ELSE
    LET wordCount == WordCountOf(text, manual_count)
        arg == Arg("", "", wordCount)
        owner == OwnRows(id, session[s].userId) # {}
    IN
    IF NothingToLog(wordCount)
    THEN /\ last' = Response("POST /log-words/:id", s, id, arg, 200, "log-words",
                             "Please enter text or a word count", 1,
                             OwnRows(id, session[s].userId), TRUE)
         /\ UNCHANGED <<tables, session, now, hist, inflight>>
    ELSE IF id \notin DOMAIN Project
    THEN \* ProgressLog.project_id references Project: the INSERT throws
         /\ last' = Response("POST /log-words/:id", s, id, arg, 302, "/dashboard",
                             "", 2, {}, TRUE)
         /\ UNCHANGED <<tables, session, now, hist, inflight>>
    ELSE
      \E previousTotal \in CurrentWords(ProgressLog, id) :
        /\ now < MaxNow
        /\ ProgressLog' = Append(ProgressLog,
             [project_id |-> id, word_count |-> wordCount,
              total_words |-> NewTotal(previousTotal, wordCount),
              log_date |-> now])
        /\ now' = now + 1
        /\ hist' = [hist EXCEPT ![id] =
                      IF owner /\ @.onlyLogged
                      THEN [onlyLogged |-> TRUE, sum |-> @.sum + wordCount]
                      ELSE [onlyLogged |-> FALSE, sum |-> @.sum]]
        /\ last' = Response("POST /log-words/:id", s, id, arg, 302, "/dashboard",
                            "", 2, {}, TRUE)
        /\ UNCHANGED <<User, Security, Project, Goal, nextProjectId, nextGoalId,
                       session, inflight>>

\* ------------------------------------ POST /log-words/:id, await by await
\* the handler up to its second await: the count is computed and the SELECT
\* of lastLog answered; a zero count is answered at once
LogWordsSelect(r, s, id, text, manual_count) ==
  LET wordCount == WordCountOf(text, manual_count) IN
  /\ inflight[r] = Idle
  /\ Authenticated(s, "/log-words/:id")
  /\ IF NothingToLog(wordCount)
     THEN /\ last' = Response("POST /log-words/:id", s, id, Arg("", "", wordCount),
                              200, "log-words", "Please enter text or a word count",
                              1, OwnRows(id, session[s].userId), TRUE)
          /\ UNCHANGED inflight
     ELSE /\ \E previousTotal \in CurrentWords(ProgressLog, id) :
               inflight' = [inflight EXCEPT ![r] =
                              [pc |-> "insert", sess |-> s, id |-> id,
                               wordCount |-> wordCount,
                               previousTotal |-> previousTotal]]
          /\ UNCHANGED last
  /\ UNCHANGED <<tables, session, now, hist>>

\* the rest of the handler: newTotal from the total read earlier, the INSERT
\* and the redirect
LogWordsInsert(r) ==
  LET q == inflight[r]
      arg == Arg("", "", q.wordCount)
      owner == OwnRows(q.id, session[q.sess].userId) # {}
  IN
  /\ q.pc = "insert"
  /\ inflight' = [inflight EXCEPT ![r] = Idle]
  /\ IF q.id \notin DOMAIN Project
     THEN \* ProgressLog.project_id references Project: the INSERT throws
          /\ last' = Response("POST /log-words/:id", q.sess, q.id, arg, 302,
                              "/dashboard", "", 2, {}, TRUE)
          /\ UNCHANGED <<tables, now, hist>>
     ELSE /\ now < MaxNow
          /\ ProgressLog' = Append(ProgressLog,
               [project_id |-> q.id, word_count |-> q.wordCount,
                total_words |-> NewTotal(q.previousTotal, q.wordCount),
                log_date |-> now])
          /\ now' = now + 1
          /\ hist' = [hist EXCEPT ![q.id] =
                        IF owner /\ @.onlyLogged
                        THEN [onlyLogged |-> TRUE, sum |-> @.sum + q.wordCount]
                        ELSE [onlyLogged |-> FALSE, sum |-> @.sum]]
          /\ last' = Response("POST /log-words/:id", q.sess, q.id, arg, 302,
                              "/dashboard", "", 2, {}, TRUE)
          /\ UNCHANGED <<User, Security, Project, Goal, nextProjectId, nextGoalId>>
  /\ UNCHANGED session

\* ---------------------------------------------------------- manager routes
GetManageUsers(s) ==
  IF ~Authenticated(s, "/manage-users") THEN LoginRequired("GET /manage-users", s, 0)
  ELSE IF ~requireManager(s) THEN Forbidden("GET /manage-users", s, 0)
  ELSE /\ last' = Response("GET /manage-users", s, 0, NoArg, 200, "manage-users",
                           "", 1, {}, TRUE)
       /\ UNCHANGED <<tables, session, now, hist, inflight>>

GetEditUser(s, id) ==
  IF ~Authenticated(s, "/edit-user/:id") THEN LoginRequired("GET /edit-user/:id", s, id)
  ELSE IF ~requireManager(s) THEN Forbidden("GET /edit-user/:id", s, id)
  ELSE /\ last' = IF id \notin DOMAIN User
                  THEN Response("GET /edit-user/:id", s, id, NoArg, 302,
                                "/manage-users", "", 1, {}, TRUE)
                  ELSE Response("GET /edit-user/:id", s, id, NoArg, 200,
                                "edit-user", "", 1, {}, TRUE)
       /\ UNCHANGED <<tables, session, now, hist, inflight>>

\* "User".username is unique: the UPDATE is accepted by the database
UsernameFree(id, username) ==
  \A u \in DOMAIN User : u # id => User[u].username # username

PostEditUser(s, id, username, permissions) ==
  IF ~Authenticated(s, "/edit-user/:id") THEN LoginRequired("POST /edit-user/:id", s, id)
  ELSE IF ~requireManager(s) THEN Forbidden("POST /edit-user/:id", s, id)
  ELSE /\ User' = IF id \in DOMAIN User /\ UsernameFree(id, username)
                  THEN [User EXCEPT ![id] = [username |-> username,
                                             permissions |-> permissions]]
                  ELSE User
       /\ last' = Response("POST /edit-user/:id", s, id,
                           Arg(username, permissions, 0), 302,
                           "/manage-users", "", 1, {}, TRUE)
       /\ UNCHANGED <<Security, Project, Goal, ProgressLog, nextProjectId,
                      nextGoalId, session, now, hist, inflight>>

\* faulty variant: the own-account test is missing
DeletingSelfM(s, userId) == FALSE

\* if (userId === req.session.userId)
DeletingSelf(s, userId) == userId = session[s].userId

\* rows removed along with a "User" row (ON DELETE CASCADE)
CascadeProjects(userId) == {p \in DOMAIN Project : Project[p].user_id = userId}

PostDeleteUser(s, id) ==
  IF ~Authenticated(s, "/delete-user/:id") THEN LoginRequired("POST /delete-user/:id", s, id)
  ELSE IF ~requireManager(s) THEN Forbidden("POST /delete-user/:id", s, id)
  ELSE IF DeletingSelf(s, id)
  THEN /\ last' = Response("POST /delete-user/:id", s, id, NoArg, 400, "",
                           "You cannot delete your own account", 0, {}, TRUE)
       /\ UNCHANGED <<tables, session, now, hist, inflight>>
  ELSE /\ User' = [u \in DOMAIN User \ {id} |-> User[u]]
       /\ Security' = [u \in DOMAIN Security \ {id} |-> Security[u]]
       /\ Project' = [p \in DOMAIN Project \ CascadeProjects(id) |-> Project[p]]
       /\ Goal' = {g \in Goal : g.project_id \notin CascadeProjects(id)}
       /\ ProgressLog' = SelectSeq(ProgressLog,
                           LAMBDA r : r.project_id \notin CascadeProjects(id))
       /\ last' = Response("POST /delete-user/:id", s, id, NoArg, 302,
                           "/manage-users", "", 1, {}, TRUE)
       /\ UNCHANGED <<nextProjectId, nextGoalId, session, now, hist, inflight>>

\* --------------------------------------------- a database statement fails
\* the response of a handler whose k-th db.query() rejected: every handler's
\* catch block logs the error and redirects to /dashboard
Caught(op, s, id, arg, k) ==
  [Response(op, s, id, arg, 302, "/dashboard", "", k, {}, TRUE) EXCEPT !.failed = k]

\* POST /add when its k-th statement fails: INSERT Project, INSERT Goal,
\* INSERT ProgressLog; the statements before the k-th have taken effect
PostAddFails(s, title, targetWords, currentWords, dailyGoal, startDate, k) ==
  LET uid == session[s].userId
      pid == nextProjectId
  IN
  /\ Authenticated(s, "/add")
  /\ uid \in DOMAIN User /\ targetWords # NaN
  /\ nextProjectId \in ProjectIds
  /\ k \in 1..(IF GT0(currentWords) THEN 3 ELSE 2)
  /\ Project' = IF k >= 2
                THEN (pid :> [user_id |-> uid, title |-> title,
                              start_date |-> startDate]) @@ Project
                ELSE Project
  /\ nextProjectId' = IF k >= 2 THEN nextProjectId + 1 ELSE nextProjectId
  /\ Goal' = IF k >= 3
             THEN Goal \cup {NewGoal(nextGoalId, pid, targetWords, dailyGoal)}
             ELSE Goal
  /\ nextGoalId' = IF k >= 3 THEN nextGoalId + 1 ELSE nextGoalId
  /\ hist' = IF k >= 2
             THEN [hist EXCEPT ![pid] = [onlyLogged |-> TRUE, sum |-> 0]]
             ELSE hist
  /\ last' = Caught("POST /add", s, IF k >= 2 THEN pid ELSE 0,
                    Arg("", "", currentWords), k)
  /\ UNCHANGED <<User, Security, ProgressLog, session, now, inflight>>

\* POST /edit/:id when its k-th statement fails: UPDATE Project, UPDATE Goal,
\* SELECT lastLog, INSERT ProgressLog
PostEditFails(s, id, title, targetWords, currentWords, dailyGoal, startDate, k) ==
  /\ Authenticated(s, "/edit/:id")
  /\ targetWords # NaN
  /\ k \in 1..4
  /\ k = 4 => \E lastTotal \in LastLog(ProgressLog, id) :
                EditEntry(id, lastTotal, currentWords) # <<>>
  /\ Project' = IF k >= 2
                THEN UpdateProject(Project, id, session[s].userId, title, startDate)
                ELSE Project
  /\ Goal' = IF k >= 3 THEN UpdateGoal(Goal, id, targetWords, dailyGoal) ELSE Goal
  /\ last' = Caught("POST /edit/:id", s, id, Arg("", "", currentWords), k)
  /\ UNCHANGED <<User, Security, ProgressLog, nextProjectId, nextGoalId, session,
                 now, hist, inflight>>

\* POST /delete/:id when its k-th statement fails: DELETE FROM ProgressLog,
\* DELETE FROM Goal, DELETE FROM Project
PostDeleteFails(s, id, k) ==
  /\ Authenticated(s, "/delete/:id")
  /\ k \in 1..3
  /\ ProgressLog' = IF k >= 2 THEN DeleteLogs(ProgressLog, id) ELSE ProgressLog
  /\ Goal' = IF k >= 3 THEN {g \in Goal : g.project_id # id} ELSE Goal
  /\ hist' = IF k >= 2
             THEN [hist EXCEPT ![id].onlyLogged = @ /\ RowsOf(ProgressLog, id) = {}]
             ELSE hist
  /\ last' = Caught("POST /delete/:id", s, id, NoArg, k)
  /\ UNCHANGED <<User, Security, Project, nextProjectId, nextGoalId, session, now,
                 inflight>>

\* POST /log-words/:id when its k-th statement fails: the SELECT of the form
\* re-rendered for a zero count, or SELECT lastLog, INSERT ProgressLog
PostLogWordsFails(s, id, text, manual_count, k) ==
  LET wordCount == WordCountOf(text, manual_count) IN
  /\ Authenticated(s, "/log-words/:id")
  /\ k \in 1..(IF NothingToLog(wordCount) THEN 1 ELSE 2)
  /\ last' = Caught("POST /log-words/:id", s, id, Arg("", "", wordCount), k)
  /\ UNCHANGED <<tables, session, now, hist, inflight>>

\* ------------------------------------------------------------ the system
\* one browser, every route, from a freshly started server
Browsers == {"s1"}

Next ==
  \/ \E s \in Browsers : GetRoot(s)
  \/ \E s \in Browsers, u \in LoginNames, p \in Passwords : PostLogin(s, u, p)
  \/ \E s \in Browsers : GetLogout(s)
  \/ \E s \in Browsers : GetDashboard(s)
  \/ \E s \in Browsers, q \in SearchTerms : GetSearch(s, q)
  \/ \E s \in Browsers : GetStats(s)
  \/ \E s \in Browsers : GetAdd(s)
  \/ \E s \in Browsers, cw \in {0, 1} : PostAdd(s, "a", 10, cw, 0, 0)
  \/ \E s \in Browsers, id \in ProjectIds : GetEdit(s, id)
  \/ \E s \in Browsers, id \in ProjectIds, cw \in {0, 1} :
        PostEdit(s, id, "a", 10, cw, 0, 0)
  \/ \E s \in Browsers, id \in ProjectIds : PostDelete(s, id)
  \/ \E s \in Browsers, id \in ProjectIds : GetLogWords(s, id)
  \/ \E s \in Browsers, id \in ProjectIds, t \in {<<>>, <<"a">>} :
        PostLogWords(s, id, t, NaN)
  \/ \E s \in Browsers : GetManageUsers(s)
  \/ \E s \in Browsers, id \in UserIds : GetEditUser(s, id)
  \/ \E s \in Browsers, id \in UserIds, u \in Usernames, p \in Permissions :
        PostEditUser(s, id, u, p)
  \/ \E s \in Browsers, id \in UserIds : PostDeleteUser(s, id)

Spec == Init /\ [][Next]_vars

\* ------------------------------------------- the project routes on their own
\* both browsers already logged in, ann (manager) in s1 and bob in s2
InitLedger ==
  /\ User = (1 :> [username |-> "ann", permissions |-> "M"]) @@
            (2 :> [username |-> "bob", permissions |-> "U"])
  /\ Security = (1 :> [password_text |-> "pw1"]) @@
                (2 :> [password_text |-> "pw2"])
  /\ Project = <<>>
  /\ Goal = {}
  /\ ProgressLog = <<>>
  /\ nextProjectId = 1
  /\ nextGoalId = 1
  /\ session = ("s1" :> [isLoggedIn |-> TRUE, username |-> "ann", userId |-> 1,
                         permissions |-> "M"]) @@
               ("s2" :> [isLoggedIn |-> TRUE, username |-> "bob", userId |-> 2,
                         permissions |-> "U"])
  /\ now = 1
  /\ last = [op |-> "none", sess |-> "s1", auth |-> FALSE, who |-> NoUser,
             role |-> "", id |-> 0,
             arg |-> NoArg, status |-> 0, view |-> "", msg |-> "", db |-> 0,
             data |-> {}, handler |-> FALSE, failed |-> 0]
  /\ hist = [p \in ProjectIds |-> [onlyLogged |-> TRUE, sum |-> 0]]
  /\ inflight = [r \in Requests |-> Idle]

\* the requests that write Project, Goal or ProgressLog rows
NextLedger ==
  \/ \E s \in Sessions, cw \in CurrentWordsIn, sd \in Dates :
        PostAdd(s, "a", 10, cw, 0, sd)
  \/ \E s \in Sessions, id \in ProjectIds, tw \in Targets, cw \in CurrentWordsIn :
        PostEdit(s, id, "a", tw, cw, 0, 0)
  \/ \E s \in Sessions, id \in ProjectIds : PostDelete(s, id)
  \/ \E s \in Sessions, id \in ProjectIds, f \in LogForms :
        PostLogWords(s, id, f[1], f[2])

SpecLedger == InitLedger /\ [][NextLedger]_vars

\* the same together with the requests that read them
NextProjects ==
  \/ \E s \in Sessions : GetDashboard(s)
  \/ \E s \in Sessions, q \in SearchTerms : GetSearch(s, q)
  \/ \E s \in Sessions : GetStats(s)
  \/ \E s \in Sessions, id \in ProjectIds : GetEdit(s, id)
  \/ \E s \in Sessions, id \in ProjectIds : GetLogWords(s, id)
  \/ NextLedger

SpecProjects == InitLedger /\ [][NextProjects]_vars

\* ------------------------------------------------- two projects side by side
Shelf == {1, 2}

\* the row POST /add leaves in ProgressLog for one word written long ago
ShelfEntry(pid) ==
  [project_id |-> pid, word_count |-> 1, total_words |-> 1, log_date |-> 0]

\* ann has added project 1 and ann or bob project 2, each with one word
InitShelf ==
  /\ User = (1 :> [username |-> "ann", permissions |-> "M"]) @@
            (2 :> [username |-> "bob", permissions |-> "U"])
  /\ Security = (1 :> [password_text |-> "pw1"]) @@
                (2 :> [password_text |-> "pw2"])
  /\ \E owner \in UserIds :
       Project = (1 :> [user_id |-> 1, title |-> "a", start_date |-> 0]) @@
                 (2 :> [user_id |-> owner, title |-> "a", start_date |-> 0])
  /\ Goal = {NewGoal(p, p, 10, 0) : p \in Shelf}
  /\ ProgressLog = <<ShelfEntry(1), ShelfEntry(2)>>
  /\ nextProjectId = 3
  /\ nextGoalId = 3
  /\ session = ("s1" :> [isLoggedIn |-> TRUE, username |-> "ann", userId |-> 1,
                         permissions |-> "M"]) @@
               ("s2" :> [isLoggedIn |-> TRUE, username |-> "bob", userId |-> 2,
                         permissions |-> "U"])
  /\ now = 1
  /\ last = [op |-> "none", sess |-> "s1", auth |-> FALSE, who |-> NoUser,
             role |-> "", id |-> 0,
             arg |-> NoArg, status |-> 0, view |-> "", msg |-> "", db |-> 0,
             data |-> {}, handler |-> FALSE, failed |-> 0]
  /\ hist = [p \in Shelf |-> [onlyLogged |-> FALSE, sum |-> 0]]
  /\ inflight = [r \in Requests |-> Idle]

NextShelf ==
  \/ \E s \in Sessions, id \in Shelf : PostDelete(s, id)
  \/ \E s \in Sessions, id \in Shelf, tw \in Targets, cw \in {0, 1} :
        PostEdit(s, id, "a", tw, cw, 0, 0)
  \/ \E s \in Sessions, id \in Shelf, t \in {<<>>, <<"a">>} :
        PostLogWords(s, id, t, NaN)

SpecShelf == InitShelf /\ [][NextShelf]_vars

\* ------------------------------------ the project routes on a failing database
\* ann's requests, each either served in full or cut short at one statement
NextFaults ==
  \/ \E s \in Browsers, cw \in {0, 1} : PostAdd(s, "a", 10, cw, 0, 0)
  \/ \E s \in Browsers, id \in ProjectIds, tw \in Targets, cw \in {0, 1},
        sd \in Dates : PostEdit(s, id, "a", tw, cw, 0, sd)
  \/ \E s \in Browsers, id \in ProjectIds : PostDelete(s, id)
  \/ \E s \in Browsers, id \in ProjectIds, t \in {<<>>, <<"a">>} :
        PostLogWords(s, id, t, NaN)
  \/ \E s \in Browsers, cw \in {0, 1}, k \in 1..3 :
        PostAddFails(s, "a", 10, cw, 0, 0, k)
  \/ \E s \in Browsers, id \in ProjectIds, tw \in Targets, cw \in {0, 1},
        sd \in Dates, k \in 1..4 : PostEditFails(s, id, "a", tw, cw, 0, sd, k)
  \/ \E s \in Browsers, id \in ProjectIds, k \in 1..3 : PostDeleteFails(s, id, k)
  \/ \E s \in Browsers, id \in ProjectIds, t \in {<<>>, <<"a">>}, k \in 1..2 :
        PostLogWordsFails(s, id, t, NaN, k)

SpecFaults == InitLedger /\ [][NextFaults]_vars

\* --------------------------------------- two browsers and the user accounts
\* logging in and out and the manager's routes, from a freshly started server
NextAccounts ==
  \/ \E s \in Sessions : GetRoot(s)
  \/ \E s \in Sessions, u \in LoginNames, p \in Passwords : PostLogin(s, u, p)
  \/ \E s \in Sessions : GetLogout(s)
  \/ \E s \in Sessions : GetDashboard(s)
  \/ \E s \in Sessions : GetManageUsers(s)
  \/ \E s \in Sessions, id \in UserIds : GetEditUser(s, id)
  \/ \E s \in Sessions, id \in UserIds, u \in Usernames, p \in Permissions :
        PostEditUser(s, id, u, p)
  \/ \E s \in Sessions, id \in UserIds : PostDeleteUser(s, id)

SpecAccounts == Init /\ [][NextAccounts]_vars

\* ------------------------------------- two word logs of the owner under way
\* ann has added project 1, dated in the past, with no word or one word
InitRace ==
  /\ User = (1 :> [username |-> "ann", permissions |-> "M"]) @@
            (2 :> [username |-> "bob", permissions |-> "U"])
  /\ Security = (1 :> [password_text |-> "pw1"]) @@
                (2 :> [password_text |-> "pw2"])
  /\ Project = (1 :> [user_id |-> 1, title |-> "a", start_date |-> 0])
  /\ Goal = {NewGoal(1, 1, 10, 0)}
  /\ \E cw \in {0, 1} :
       /\ ProgressLog = InitialLog(<<>>, 1, cw, 0)
       /\ hist = [p \in ProjectIds |-> [onlyLogged |-> ~GT0(cw), sum |-> 0]]
  /\ nextProjectId = 2
  /\ nextGoalId = 2
  /\ session = ("s1" :> [isLoggedIn |-> TRUE, username |-> "ann", userId |-> 1,
                         permissions |-> "M"]) @@
               ("s2" :> [isLoggedIn |-> TRUE, username |-> "bob", userId |-> 2,
                         permissions |-> "U"])
  /\ now = 1
  /\ last = [op |-> "none", sess |-> "s1", auth |-> FALSE, who |-> NoUser,
             role |-> "", id |-> 0,
             arg |-> NoArg, status |-> 0, view |-> "", msg |-> "", db |-> 0,
             data |-> {}, handler |-> FALSE, failed |-> 0]
  /\ inflight = [r \in Requests |-> Idle]

\* ann logs words from two tabs; the two handlers take turns at their awaits
NextRace ==
  \/ \E r \in Requests, s \in Browsers, id \in ProjectIds, f \in LogForms :
        LogWordsSelect(r, s, id, f[1], f[2])
  \/ \E r \in Requests : LogWordsInsert(r)

SpecRace == InitRace /\ [][NextRace]_vars

\* ------------------------------------------------------------ properties
\* the ProgressLog rows of a project, in insertion order
Entries(log, pid) == SelectSeq(log, LAMBDA r : r.project_id = pid)

\* C1: a project that had no entries and then only took the owner's
\* POST /log-words/:id submissions has a current total equal to the sum of
\* the submitted word counts
C1_TotalIsSumOfDeltas ==
  \A p \in DOMAIN Project :
    hist[p].onlyLogged => CurrentWords(ProgressLog, p) = {hist[p].sum}

C1_Witness ==
  \E p \in DOMAIN Project :
    /\ hist[p].onlyLogged
    /\ Len(Entries(ProgressLog, p)) >= 2
    /\ last.op = "POST /log-words/:id" /\ last.id = p /\ last.status = 302

\* C2: after the owner's POST /edit/:id with current words N >= 0 the
\* project's current total is N
C2_EditSetsTotal ==
  (/\ last.op = "POST /edit/:id" /\ last.handler
   /\ last.id \in OwnedBy(last.who)
   /\ last.arg.n # NaN /\ last.arg.n >= 0)
  => CurrentWords(ProgressLog, last.id) = {last.arg.n}

\* the entries of a project listed by log_date (insertion order among equals)
Before(log, i, j) ==
  \/ log[i].log_date < log[j].log_date
  \/ log[i].log_date = log[j].log_date /\ i < j

Preceding(log, j) ==
  {i \in DOMAIN log : /\ Before(log, i, j)
                      /\ \A k \in DOMAIN log : Before(log, k, j) => ~Before(log, i, k)}

\* C3: listed by log_date, the first entry of a project has total_words =
\* word_count and every later one total_words = the preceding total_words +
\* word_count
C3_LedgerConsistent ==
  \A p \in ProjectIds :
    LET log == Entries(ProgressLog, p) IN
    \A j \in DOMAIN log :
      IF Preceding(log, j) = {}
      THEN log[j].total_words = log[j].word_count
      ELSE \A i \in Preceding(log, j) :
             log[j].total_words = log[i].total_words + log[j].word_count

\* the Project row, Goal rows and ProgressLog entries of a project
RowsOfProject(proj, goal, log, p) ==
  <<IF p \in DOMAIN proj THEN {proj[p]} ELSE {},
    {g \in goal : g.project_id = p},
    Entries(log, p)>>

\* C4: a request from a session of a user other than the owner neither
\* returns nor changes, adds to or deletes the rows of the project
C4_Ownership ==
  [][\A p \in DOMAIN Project :
       Project[p].user_id # last'.who =>
         /\ RowsOfProject(Project', Goal', ProgressLog', p) =
              RowsOfProject(Project, Goal, ProgressLog, p)
         /\ p \notin last'.data]_vars

ActiveGoals(p) ==
  {g \in Goal : g.project_id = p /\ g.goal_type = "total_words" /\ g.is_active}

\* C5: every project has at most one active total_words goal
C5_OneActiveGoal == \A p \in ProjectIds : Cardinality(ActiveGoals(p)) <= 1

C5_Witness ==
  /\ last.op = "POST /edit/:id" /\ last.db >= 3
  /\ \E g \in ActiveGoals(last.id) : g.target_value = 20

OpenOps == {"GET /", "POST /login", "GET /logout"}

ManagerOps == {"GET /manage-users", "GET /edit-user/:id", "POST /edit-user/:id",
               "POST /delete-user/:id"}

\* C7: an authenticated session whose role is not 'M' gets 403 (not a
\* redirect) from every manager-only route, and no User row changes
C7_ManagerOnly ==
  [][(last'.op \in ManagerOps /\ last'.auth /\ last'.role # "M") =>
       /\ last'.status = 403
       /\ User' = User]_vars

C7_Witness ==
  /\ last.op = "POST /delete-user/:id" /\ last.auth /\ last.role = "U"
  /\ last.status = 403 /\ last.id \in DOMAIN User

\* C8: a manager's POST /delete-user/:id with the session's own user id is
\* rejected, and no request of a manager removes that manager's own User row
C8_NoSelfDeletion ==
  [][(last'.auth /\ last'.role = "M") =>
       /\ (last'.op = "POST /delete-user/:id" /\ last'.id = last'.who)
            => (last'.status = 400 /\ User' = User)
       /\ last'.who \in DOMAIN User => last'.who \in DOMAIN User']_vars

C8_Witness ==
  /\ last.op = "POST /delete-user/:id" /\ last.role = "M"
  /\ last.id = last.who /\ last.status = 400 /\ last.who \in DOMAIN User

\* C9: an owner's POST /edit/:id that restates the project's existing current
\* total appends no entry, and one that repeats the owner's previous edit of
\* the project with the same current total appends none either (the two
\* together append at most one)
C9_RestatedTotalAppendsNothing ==
  [][/\ (/\ last'.op = "POST /edit/:id"
         /\ last'.id \in OwnedBy(last'.who)
         /\ CurrentWords(ProgressLog, last'.id) = {last'.arg.n})
        => Entries(ProgressLog', last'.id) = Entries(ProgressLog, last'.id)
     /\ (/\ last.op = "POST /edit/:id" /\ last'.op = "POST /edit/:id"
         /\ last.id \in OwnedBy(last.who)
         /\ last'.id = last.id /\ last'.who = last.who
         /\ last'.arg.n = last.arg.n
         /\ last.arg.n # NaN)
        => Entries(ProgressLog', last.id) = Entries(ProgressLog, last.id)]_vars

\* the users whose stored credential the submitted form matches
Matching(name, pass) ==
  {u \in DOMAIN User \cap DOMAIN Security :
     User[u].username = name /\ Security[u].password_text = pass}

\* C10: a session becomes authenticated only by a POST /login whose password
\* equals the credential stored for the submitted username; any other login
\* re-renders the login view with an error and leaves the session as it was,
\* an anonymous one anonymous with no user id and no role
C10_LoginOnlyByCredential ==
  [][/\ \A s \in Sessions :
          (session'[s].isLoggedIn /\ session'[s] # session[s]) =>
            /\ last'.op = "POST /login" /\ last'.sess = s
            /\ session'[s].userId \in Matching(last'.arg.name, last'.arg.pass)
     /\ (last'.op = "POST /login" /\ Matching(last'.arg.name, last'.arg.pass) = {})
          => /\ last'.view = "login" /\ last'.msg # ""
             /\ session' = session
             /\ ~last'.auth => session'[last'.sess] = Anonymous]_vars

C10_Witness ==
  /\ last.op = "POST /login" /\ last.status = 302
  /\ session[last.sess].isLoggedIn
  /\ session[last.sess].userId \in Matching(last.arg.name, last.arg.pass)

\* C11: after the owner's POST /delete/:id for project p the Project row of p
\* and every Goal row and ProgressLog entry of p are gone, and the rows of
\* every other project are as they were
C11_DeleteRemovesProjectOnly ==
  [][(/\ last'.op = "POST /delete/:id" /\ last'.handler /\ last'.failed = 0
      /\ last'.id \in OwnedBy(last'.who))
     => /\ RowsOfProject(Project', Goal', ProgressLog', last'.id) = <<{}, {}, <<>>>>
        /\ \A q \in DOMAIN Project \ {last'.id} :
             RowsOfProject(Project', Goal', ProgressLog', q) =
               RowsOfProject(Project, Goal, ProgressLog, q)]_vars

C11_Witness ==
  /\ last.op = "POST /delete/:id" /\ last.handler /\ last.who = 1 /\ last.id = 1
  /\ DOMAIN Project = {2}
  /\ Entries(ProgressLog, 1) = <<>>
  /\ Len(Entries(ProgressLog, 2)) >= 2
  /\ \E g \in Goal : g.project_id = 2

\* C12: when a database statement issued by a request fails, the request ends
\* with a redirect or a re-rendered page and the stored Project, Goal and
\* ProgressLog rows are the same as before the request began
C12_FailureChangesNothing ==
  [][last'.failed # 0 =>
       /\ last'.status = 302 \/ last'.view # ""
       /\ <<Project', Goal', ProgressLog'>> = <<Project, Goal, ProgressLog>>]_vars

\* C13: within each project the entries were appended in the order of their
\* log_date, so the current total every view reads is the total_words of the
\* entry appended last
C13_AppendOrderIsDateOrder ==
  \A p \in ProjectIds :
    LET log == Entries(ProgressLog, p) IN
    /\ \A i, j \in DOMAIN log : i < j => log[i].log_date <= log[j].log_date
    /\ log # <<>> => CurrentWords(ProgressLog, p) = {log[Len(log)].total_words}

\* a text with no word in it
Blank(text) == \A i \in DOMAIN text : text[i] = " "

\* C14: a POST /log-words/:id submission with no manual count greater than 0
\* and no non-blank text has a word count of zero; it appends no entry and
\* re-renders the log-words form with an error message, and every entry
\* appended by POST /log-words/:id has word_count >= 1
C14_ZeroCountRejected ==
  /\ \A f \in LogForms : WordCountOf(f[1], f[2]) >= 0
  /\ \A f \in LogForms : WordCountOf(f[1], f[2]) = 0 <=> (~GT0(f[2]) /\ Blank(f[1]))
  /\ [][(last'.op = "POST /log-words/:id" /\ last'.handler) =>
          /\ last'.arg.n = 0 =>
               /\ ProgressLog' = ProgressLog
               /\ last'.view = "log-words"
               /\ last'.msg = "Please enter text or a word count"
          /\ \A i \in DOMAIN ProgressLog' \ DOMAIN ProgressLog :
               ProgressLog'[i].word_count >= 1]_vars

C14_Witness ==
  /\ last.op = "POST /log-words/:id" /\ last.handler /\ last.arg.n = 0
  /\ last.view = "log-words"
  /\ last.id \in OwnedBy(last.who)
  /\ \E i \in DOMAIN ProgressLog : ProgressLog[i].word_count = MaxWords

\* C15: for every project that continues to exist no request changes or
\* removes a stored ProgressLog entry: its entries after a request begin with
\* its entries before, and an entry appended with a total below the current
\* total has a negative word_count
C15_AppendOnly ==
  [][\A p \in DOMAIN Project \cap DOMAIN Project' :
       LET old == Entries(ProgressLog, p)
           new == Entries(ProgressLog', p)
       IN /\ Len(new) >= Len(old)
          /\ SubSeq(new, 1, Len(old)) = old
          /\ \A i \in (Len(old) + 1)..Len(new) :
               (\A t \in CurrentWords(ProgressLog, p) : new[i].total_words < t)
                 => new[i].word_count < 0]_vars

C18_SessionMatchesUser ==
  \A s \in Sessions :
    session[s].isLoggedIn =>
      /\ session[s].userId \in DOMAIN User
      /\ session[s].permissions = User[session[s].userId].permissions

\* the sum of the word counts of a sequence of entries
RECURSIVE SumCounts(_)
SumCounts(log) ==
  IF log = <<>> THEN 0 ELSE log[1].word_count + SumCounts(Tail(log))

\* C17: when POST /log-words/:id requests for the same project with positive
\* counts take turns at their awaits, every new entry has total_words = the
\* total_words of the entry before it + its word_count, and once both are
\* done the current total is the total before them plus both counts
C17_InterleavedLogsAddUp ==
  \A p \in DOMAIN Project :
    LET log == Entries(ProgressLog, p) IN
    /\ \A j \in DOMAIN log :
         log[j].total_words =
           (IF j = 1 THEN 0 ELSE log[j - 1].total_words) + log[j].word_count
    /\ (\A r \in Requests : inflight[r] = Idle)
         => CurrentWords(ProgressLog, p) = {SumCounts(log)}

====
